---- MODULE Spec2Model ----
(***************************************************************************)
(* Model of the delayed-measurement estimator DpointFilter                  *)
(* (src/Code/IMU/app/filter.py): the history deque, the rollback / fusion / *)
(* smoothing / replay of update_camera and the inertial step update_imu.    *)
(*                                                                          *)
(* Numeric abstraction.  Motion is restricted to one axis, so a position is *)
(* one integer in units of 0.25 m and the Euclidean norm of a difference is *)
(* its absolute value; the reset threshold 0.5 m is 2 units.  A quaternion  *)
(* is restricted to the unit circle (cos a, sin a, 0, 0) with a a multiple  *)
(* of 30 degrees and is held as the index a / 30 in 0..11; -q is q + 6.     *)
(* The L2 distance of two such quaternions is 2 sin(15 d) for d the         *)
(* circular index distance: 0, 0.52, 1.0, 1.41, 1.73, 1.93, 2 for d = 0..6, *)
(* strictly increasing, so a distance is held as d and the threshold 1.0    *)
(* is d = 2.  A covariance is the position variance, in units of 1e-5.      *)
(* One inertial period dt is one time unit.                                 *)
(*                                                                          *)
(* Beside the estimator driven by a caller (Spec) the module holds: two     *)
(* estimators fed the same calls (SpecTwo), the pose query between the      *)
(* calls (SpecPose), nearest_quaternion on its own (SpecNearest), and the   *)
(* live application (SpecApp, SpecAppFair): the vision loop of              *)
(* src/Code/Computer_vision/run.py publishing object_pose, the BLE producer *)
(* putting readings on the IMU queue, and QueueConsumer.run_queue_consumer  *)
(* of src/Code/IMU/app/app.py polling the pose through                      *)
(* src/Code/IMU/app/dodeca_bridge.py and calling update_camera.             *)
(*                                                                          *)
(* The offline tools and the other processes are modelled beside them:      *)
(* run_workflow of src/Code/IMU/compare_workflows.py in its three modes     *)
(* (SpecWorkflow), a scripted run of the estimator whose calls are kept     *)
(* for comparison (SpecScenario, SpecReplay), the BLE process               *)
(* monitor_ble_async of src/Code/Kalman/monitor_ble.py with its command     *)
(* queue (SpecBle, SpecBleFair), blend_new_data on its own (SpecBlend,      *)
(* factors and rows held as numerators over a common denominator), and      *)
(* merge_data of src/Code/IMU/merge_imu_cv_data.py (SpecMerge, times in     *)
(* units of 1800 s).                                                        *)
(***************************************************************************)
EXTENDS Integers, Sequences, FiniteSets, TLC

\* ------------------------------------------------------------------ bounds
MaxSmoothing == 1
MaxDelay == 2
MaxCalls == 4
MaxPos == 3
\* calls of the shorter runs (two estimators, the pose query, the comparison
\* of measured orientations), and calls the first of two estimators may be
\* ahead of the second
MaxCallsShort == 3
MaxLag == 2
\* poses the vision loop publishes, readings the BLE producer puts, and
\* measurements the queue consumer reads
MaxFrames == 2
MaxReadings == 1
MaxPolls == 3
\* calls of the end-to-end scenario: one camera measurement, five inertial
\* samples, one camera measurement
MaxScenarioCalls == 7
\* calls of the runs with two camera measurements and samples in between
MaxReplayCalls == 5
\* device-not-found, exception and disconnect cycles of the BLE process
MaxCycles == 3

\* ------------------------------------------------------- program constants
\* covdiag 0.01 of initial_state, in units of 1e-5
InitCov == 1000
\* additive_noise[i_pos] = 1e-4, in units of 1e-5
Qpos == 10
\* camera_noise_pos = 1e-5, in units of 1e-5
CameraNoisePos == 1
\* pos_error > 0.5 (metres), in units of 0.25 m
PosThreshold == 2
\* or_error > 1.0: the index distance whose L2 distance is exactly 1.0
OrThreshold == 2

\* R of standard_fuse_camera: 1e-5 for the position and 1e-4 for the
\* quaternion components, in units of 1e-5
StandardNoisePos == 1
StandardNoiseQuat == 10

\* The inputs of the calls: an accelerometer sample is 0 or one unit against
\* the axis, the gyroscope sample is 0; a measured orientation is a rotation
\* by 0, 120, 180 or 240 degrees about the x axis (quaternion distance to the
\* identity 0, exactly 1.0, 1.41 with both signs equally near, and 1.73
\* before the sign is chosen); a measured position is 0..MaxPos units.
AccelVals == {-1, 0}
GyroVals == {0}
RotVals == {0, 2, 3, 4}
PosVals == 0..MaxPos

\* The estimator and the record of its last call.
VARIABLES filter, ret, last, arg, work, calls

\* A second estimator, and the calls the first has made and the second has
\* not made yet.
VARIABLES other, pending

\* The arguments and the result of one nearest_quaternion call.
VARIABLES nearest

\* The live application: object_pose and cv_shutdown_requested of run.py,
\* the IMU queue, _prev_q of dodeca_bridge.py, the measurement the consumer
\* read in its last iteration, the published poses handed to update_camera
\* so far, the readings of time.time() so far, and the QueueConsumer.
VARIABLES object_pose, cv_shutdown_requested, imu_queue, prev_q, vis, fed, clock, consumer

\* The position of the vision thread in start() of run.py, and the BLE
\* process monitor_ble_async with its command queue.
VARIABLES cv_thread, ble

\* The offline tools: the run of run_workflow of compare_workflows.py, the
\* calls made so far in the end-to-end scenario, one blend_new_data call, and
\* one merge_data call.
VARIABLES workflow, script, blend, merge

estimator == <<filter, ret, last, arg, work, calls>>

second == <<other, pending>>

application ==
    <<object_pose, cv_shutdown_requested, imu_queue, prev_q, vis, fed, clock, consumer,
      cv_thread, ble>>

offline == <<workflow, script, blend, merge>>

vars == <<estimator, second, nearest, application, offline>>

\* ----------------------------------------------------------------- helpers
Abs(x) == IF x < 0 THEN 0 - x ELSE x

Min(a, b) == IF a < b THEN a ELSE b

\* a / b rounded to the nearest integer (b > 0)
RoundDiv(a, b) == (2 * a + b) \div (2 * b)

RECURSIVE Reverse(_)
Reverse(s) == IF s = <<>> THEN <<>> ELSE Append(Reverse(Tail(s)), Head(s))

\* -q
NegQuat(q) == (q + 6) % 12

\* |a - b| for two quaternions, as the index distance 0..6
QuatDist(a, b) ==
    LET d == (a - b + 12) % 12
    IN  IF d > 6 THEN 12 - d ELSE d

FilterState(state, statecov) == [state |-> state, statecov |-> statecov]

HistoryItem(updated_state, updated_statecov, predicted_state, predicted_statecov, accel, gyro) ==
    [updated_state |-> updated_state, updated_statecov |-> updated_statecov,
     predicted_state |-> predicted_state, predicted_statecov |-> predicted_statecov,
     accel |-> accel, gyro |-> gyro]

\* An absent optional value (Python None) is <<>>, a present one is <<v>>.
None == <<>>

\* Mutant of initial_state: the position argument is ignored.
initial_state_nopos(position, orientation) ==
    FilterState([pos |-> 0, vel |-> 0, acc |-> 0, av |-> 0,
                 quat |-> IF orientation = None THEN 0 ELSE orientation[1]],
                InitCov)

initial_state(position, orientation) ==
    FilterState([pos |-> IF position = None THEN 0 ELSE position[1],
                 vel |-> 0, acc |-> 0, av |-> 0,
                 quat |-> IF orientation = None THEN 0 ELSE orientation[1]],
                InitCov)

get_tip_pose(state) == <<state.pos, state.quat>>

\* Quaternion(matrix=R).normalised for R the rotation by 60 r degrees about
\* the x axis (r taken modulo 6).  The conversion fixes the sign by the
\* largest diagonal term: x >= 0 when R[2,2] < 0 (120, 180, 240 degrees) and
\* w >= 0 otherwise, which is the index r for r = 0..4 and 11, not 5, for
\* r = 5.  The norm of the result is 1.
get_orientation_quat(orientation_mat) ==
    LET r == orientation_mat % 6
    IN  IF r = 5 THEN 11 ELSE r

\* Mutant of nearest_quaternion: error1 <= error2 keeps new on a tie.
nearest_quaternion_le(reference, new) ==
    LET error1 == QuatDist(reference, new)
        error2 == QuatDist(reference, NegQuat(new))
    IN  IF error1 <= error2 THEN [quat |-> new, error |-> error1]
        ELSE [quat |-> NegQuat(new), error |-> error2]

nearest_quaternion(reference, new) ==
    LET error1 == QuatDist(reference, new)
        error2 == QuatDist(reference, NegQuat(new))
    IN  IF error1 < error2 THEN [quat |-> new, error |-> error1]
        ELSE [quat |-> NegQuat(new), error |-> error2]

\* ------------------------------------------------ filter_core (not in src/)
\* Position integrates velocity, velocity integrates acceleration, the
\* quaternion integrates the angular velocity; acceleration and angular
\* velocity are constant; the covariance accumulates the additive noise.
ekf_predict(fs, Q) ==
    FilterState([pos |-> fs.state.pos + fs.state.vel,
                 vel |-> fs.state.vel + fs.state.acc,
                 acc |-> fs.state.acc,
                 av |-> fs.state.av,
                 quat |-> (fs.state.quat + fs.state.av) % 12],
                fs.statecov + Q)

\* The inertial correction: the acceleration and angular-velocity blocks are
\* observed directly with a gain that rounds to 1; position is not observed.
fuse_imu(predicted, accel, gyro) ==
    FilterState([predicted.state EXCEPT !.acc = accel, !.av = gyro],
                predicted.statecov)

\* The decoupled camera correction: h(state) = position, gain P / (P + R).
\* The measured orientation is not used.
fuse_camera(fs, imu_pos, orientation_quat, R) ==
    LET P == fs.statecov
        innovation == imu_pos - fs.state.pos
    IN  FilterState([fs.state EXCEPT !.pos = fs.state.pos + RoundDiv(P * innovation, P + R)],
                    (P * R) \div (P + R))

\* Backward (Rauch-Tung-Striebel) recursion over the items, one smoothed
\* state per item, oldest first; the newest item's smoothed state is its
\* corrected state.
RECURSIVE ekf_smooth(_)
ekf_smooth(items) ==
    IF Len(items) = 0 THEN <<>>
    ELSE IF Len(items) = 1 THEN <<items[1].updated_state>>
    ELSE LET rest == ekf_smooth(Tail(items))
             cur == items[1]
             nxt == items[2]
             gainnum == cur.updated_statecov
             gainden == nxt.predicted_statecov
             delta == rest[1].pos - nxt.predicted_state.pos
         IN  <<[cur.updated_state EXCEPT
                   !.pos = cur.updated_state.pos + RoundDiv(gainnum * delta, gainden)]>>
             \o rest

\* ------------------------------------------------------------ DpointFilter
DpointFilter(smoothing_length, camera_delay) ==
    [history |-> <<>>, fs |-> initial_state(None, None),
     smoothing_length |-> smoothing_length, camera_delay |-> camera_delay]

\* Mutant of popleft_overflow: pop() instead of popleft(), the newest entry
\* is removed.
popleft_overflow_newest(history, max_history_len) ==
    IF Len(history) > max_history_len THEN SubSeq(history, 1, Len(history) - 1)
    ELSE history

\* Mutant of popleft_overflow: the overflow test is off by one.
popleft_overflow_late(history, max_history_len) ==
    IF Len(history) > max_history_len + 1 THEN Tail(history) ELSE history

\* if len(self.history) > max_history_len: self.history.popleft()
popleft_overflow(history, max_history_len) ==
    IF Len(history) > max_history_len THEN Tail(history) ELSE history

\* Mutant of update_imu: the entry is stored without the raw sample.
update_imu_nosample(self, accel, gyro) ==
    LET predicted == ekf_predict(self.fs, Qpos)
        fs == fuse_imu(predicted, accel, gyro)
        item == HistoryItem(fs.state, fs.statecov, predicted.state, predicted.statecov,
                            None, None)
        max_history_len == self.smoothing_length + self.camera_delay + 1
    IN  [self EXCEPT !.fs = fs,
                     !.history = popleft_overflow(Append(self.history, item), max_history_len)]

\* Mutant of update_imu: the entry is built before self.fs is assigned and
\* stores the pair of the previous call as its corrected pair.
update_imu_stale(self, accel, gyro) ==
    LET predicted == ekf_predict(self.fs, Qpos)
        fs == fuse_imu(predicted, accel, gyro)
        item == HistoryItem(self.fs.state, self.fs.statecov, predicted.state,
                            predicted.statecov, <<accel>>, <<gyro>>)
        max_history_len == self.smoothing_length + self.camera_delay + 1
    IN  [self EXCEPT !.fs = fs,
                     !.history = popleft_overflow(Append(self.history, item), max_history_len)]

\* Mutant of update_imu: the entry stores the corrected state as its
\* predicted state.
update_imu_nopred(self, accel, gyro) ==
    LET predicted == ekf_predict(self.fs, Qpos)
        fs == fuse_imu(predicted, accel, gyro)
        item == HistoryItem(fs.state, fs.statecov, fs.state, fs.statecov,
                            <<accel>>, <<gyro>>)
    IN  [self EXCEPT !.fs = fs,
                     !.history = popleft_overflow(Append(self.history, item),
                                     self.smoothing_length + self.camera_delay + 1)]

\* Mutant of update_imu: history is a class attribute, one deque for every
\* instance (here the deque of the first estimator).
update_imu_shared(self, accel, gyro) ==
    LET predicted == ekf_predict(self.fs, Qpos)
        fs == fuse_imu(predicted, accel, gyro)
        item == HistoryItem(fs.state, fs.statecov, predicted.state, predicted.statecov,
                            <<accel>>, <<gyro>>)
        max_history_len == self.smoothing_length + self.camera_delay + 1
    IN  [self EXCEPT !.fs = fs,
                     !.history = popleft_overflow(Append(filter.history, item),
                                                  max_history_len)]

update_imu(self, accel, gyro) ==
    LET predicted == ekf_predict(self.fs, Qpos)
        fs == fuse_imu(predicted, accel, gyro)
        item == HistoryItem(fs.state, fs.statecov, predicted.state, predicted.statecov,
                            <<accel>>, <<gyro>>)
        max_history_len == self.smoothing_length + self.camera_delay + 1
    IN  [self EXCEPT !.fs = fs,
                     !.history = popleft_overflow(Append(self.history, item), max_history_len)]

\* What a call did, recorded for the properties: the entries popped by the
\* rollback, the index the anchor had in the history before the call, the
\* two residuals of the divergence check, the entries smoothed, the
\* update_imu calls of the replay, and the longest history left by any
\* update_imu of the call.
NoWork ==
    [rolled |-> 0, anchor |-> 0, pos_error |-> 0, or_error |-> 0,
     smoothed |-> 0, replayed |-> 0, peak |-> 0]

\* Mutant of rollback_count: every entry but the oldest is rolled back.
rollback_count_all(history_len, camera_delay) == history_len - 1

\* Mutant of rollback_count: one more entry than camera_delay is rolled back.
rollback_count_more(history_len, camera_delay) ==
    Min(history_len - 1, camera_delay + 1)

\* range(min(len(self.history) - 1, self.camera_delay))
rollback_count(history_len, camera_delay) ==
    Min(history_len - 1, camera_delay)

\* Mutant of rollback: replay.append instead of replay.appendleft.
rollback_append(history, n) ==
    [history |-> SubSeq(history, 1, Len(history) - n),
     replay |-> Reverse(SubSeq(history, Len(history) - n + 1, Len(history)))]

\* n times replay.appendleft(self.history.pop()): the n newest entries leave
\* the history and stand in the replay deque oldest first.
rollback(history, n) ==
    [history |-> SubSeq(history, 1, Len(history) - n),
     replay |-> SubSeq(history, Len(history) - n + 1, Len(history))]

\* Mutant of cold_start: the cold start also records a history entry.
cold_start_append(self, imu_pos, or_quat) ==
    LET fs0 == initial_state(<<imu_pos>>, <<or_quat>>)
        fs == ekf_predict(fs0, Qpos)
    IN  [self |-> [self EXCEPT !.fs = fs,
                      !.history = <<HistoryItem(fs.state, fs.statecov, fs0.state,
                                                fs0.statecov, None, None)>>],
         ret |-> <<get_tip_pose(fs.state)[1]>>,
         branch |-> "cold",
         work |-> [NoWork EXCEPT !.peak = 1]]

\* The branch len(self.history) == 0 of update_camera.
cold_start(self, imu_pos, or_quat) ==
    LET fs == ekf_predict(initial_state(<<imu_pos>>, <<or_quat>>), Qpos)
    IN  [self |-> [self EXCEPT !.fs = fs],
         ret |-> <<get_tip_pose(fs.state)[1]>>,
         branch |-> "cold",
         work |-> NoWork]

\* Mutant of diverged: any residual at all is a tracking loss.
diverged_any(pos_error, or_error) == pos_error > 0 \/ or_error > 0

\* Mutant of diverged: the comparisons are not strict.
diverged_nonstrict(pos_error, or_error) ==
    pos_error >= PosThreshold \/ or_error >= OrThreshold

\* pos_error > 0.5 or or_error > 1.0
diverged(pos_error, or_error) ==
    pos_error > PosThreshold \/ or_error > OrThreshold

\* Mutant of reset: the history is left as the rollback left it.
reset_keep_history(self, kept, imu_pos, or_quat_smoothed, errors) ==
    LET fs == initial_state(<<imu_pos>>, <<or_quat_smoothed>>)
    IN  [self |-> [self EXCEPT !.fs = fs, !.history = kept],
         ret |-> <<get_tip_pose(fs.state)[1]>>,
         branch |-> "reset",
         work |-> [errors EXCEPT !.peak = Len(kept)]]

\* The tracking-loss branch of update_camera.
reset(self, kept, imu_pos, or_quat_smoothed, errors) ==
    LET fs == initial_state(<<imu_pos>>, <<or_quat_smoothed>>)
    IN  [self |-> [self EXCEPT !.fs = fs, !.history = <<>>],
         ret |-> <<get_tip_pose(fs.state)[1]>>,
         branch |-> "reset",
         work |-> errors]

\* Mutant of replace_anchor: the new entry takes the corrected pair as its
\* predicted pair too.
replace_anchor_all(kept, fs) ==
    Append(SubSeq(kept, 1, Len(kept) - 1),
           HistoryItem(fs.state, fs.statecov, fs.state, fs.statecov, None, None))

\* previous = self.history.pop(); self.history.append(HistoryItem(...)): the
\* new anchor entry carries no accel and no gyro.
replace_anchor(kept, fs) ==
    LET previous == kept[Len(kept)]
    IN  Append(SubSeq(kept, 1, Len(kept) - 1),
               HistoryItem(fs.state, fs.statecov, previous.predicted_state,
                           previous.predicted_statecov, None, None))

\* for item in replay: the filter after the loop, the states appended to
\* predicted_estimates, the number of update_imu calls made and the longest
\* history seen at the return of one of them.
RECURSIVE replay_loop(_, _, _)
replay_loop(self, replay, acc) ==
    IF replay = <<>> THEN [self |-> self, predicted_estimates |-> acc.predicted_estimates,
                           replayed |-> acc.replayed, peak |-> acc.peak]
    ELSE LET item == Head(replay)
             has == item.accel # None /\ item.gyro # None
             self2 == IF has THEN update_imu(self, item.accel[1], item.gyro[1]) ELSE self
         IN  replay_loop(self2, Tail(replay),
                 [predicted_estimates |-> Append(acc.predicted_estimates, self2.fs.state),
                  replayed |-> acc.replayed + (IF has THEN 1 ELSE 0),
                  peak |-> IF Len(self2.history) > acc.peak THEN Len(self2.history)
                           ELSE acc.peak])

\* Mutant of result_list: the replayed estimates come before the smoothed.
result_list_predicted_first(smoothed_estimates, predicted_estimates) ==
    LET all == predicted_estimates \o smoothed_estimates
    IN  [i \in 1..Len(all) |-> get_tip_pose(all[i])[1]]

\* Mutant of result_list: only the smoothed estimates are returned.
result_list_smoothed_only(smoothed_estimates, predicted_estimates) ==
    [i \in 1..Len(smoothed_estimates) |-> get_tip_pose(smoothed_estimates[i])[1]]

\* [get_tip_pose(state)[0] for state in smoothed_estimates + predicted_estimates]
result_list(smoothed_estimates, predicted_estimates) ==
    LET all == smoothed_estimates \o predicted_estimates
    IN  [i \in 1..Len(all) |-> get_tip_pose(all[i])[1]]

\* Mutant of fusion: the measured orientation is written into the corrected
\* state.
fusion_orientation(self, kept, replay, fs, imu_pos, or_quat_smoothed, errors) ==
    LET fused0 == fuse_camera(fs, imu_pos, or_quat_smoothed, CameraNoisePos)
        fused == FilterState([fused0.state EXCEPT !.quat = or_quat_smoothed],
                             fused0.statecov)
        history == replace_anchor(kept, fused)
        smoothed_estimates == ekf_smooth(history)
        after == replay_loop([self EXCEPT !.fs = fused, !.history = history], replay,
                     [predicted_estimates |-> <<>>, replayed |-> 0, peak |-> Len(history)])
    IN  [self |-> after.self,
         ret |-> result_list(smoothed_estimates, after.predicted_estimates),
         branch |-> "fusion",
         work |-> [errors EXCEPT !.smoothed = Len(history),
                                  !.replayed = after.replayed, !.peak = after.peak]]

\* Mutant of fusion: the smoothed states are written back into the history.
fusion_writeback(self, kept, replay, fs, imu_pos, or_quat_smoothed, errors) ==
    LET fused == fuse_camera(fs, imu_pos, or_quat_smoothed, CameraNoisePos)
        corrected == replace_anchor(kept, fused)
        smoothed_estimates == ekf_smooth(corrected)
        history == [i \in 1..Len(corrected) |->
                       [corrected[i] EXCEPT !.updated_state = smoothed_estimates[i]]]
        after == replay_loop([self EXCEPT !.fs = fused, !.history = history], replay,
                     [predicted_estimates |-> <<>>, replayed |-> 0, peak |-> Len(history)])
    IN  [self |-> after.self,
         ret |-> result_list(smoothed_estimates, after.predicted_estimates),
         branch |-> "fusion",
         work |-> [errors EXCEPT !.smoothed = Len(history),
                                  !.replayed = after.replayed, !.peak = after.peak]]

\* The fusion path of update_camera: correct the anchor, smooth, replay.
fusion(self, kept, replay, fs, imu_pos, or_quat_smoothed, errors) ==
    LET fused == fuse_camera(fs, imu_pos, or_quat_smoothed, CameraNoisePos)
        history == replace_anchor(kept, fused)
        smoothed_estimates == ekf_smooth(history)
        after == replay_loop([self EXCEPT !.fs = fused, !.history = history], replay,
                     [predicted_estimates |-> <<>>, replayed |-> 0, peak |-> Len(history)])
    IN  [self |-> after.self,
         ret |-> result_list(smoothed_estimates, after.predicted_estimates),
         branch |-> "fusion",
         work |-> [errors EXCEPT !.smoothed = Len(history),
                                  !.replayed = after.replayed, !.peak = after.peak]]

update_camera(self, imu_pos, orientation_mat) ==
    LET or_quat == get_orientation_quat(orientation_mat)
    IN  IF Len(self.history) = 0 THEN cold_start(self, imu_pos, or_quat)
        ELSE LET rb == rollback(self.history,
                                rollback_count(Len(self.history), self.camera_delay))
                 h == rb.history[Len(rb.history)]
                 fs == FilterState(h.updated_state, h.updated_statecov)
                 nq == nearest_quaternion(fs.state.quat, or_quat)
                 pos_error == Abs(imu_pos - fs.state.pos)
                 errors == [NoWork EXCEPT !.rolled = Len(rb.replay),
                                          !.anchor = Len(rb.history),
                                          !.pos_error = pos_error,
                                          !.or_error = nq.error]
             IN  IF diverged(pos_error, nq.error)
                 THEN reset(self, rb.history, imu_pos, nq.quat, errors)
                 ELSE fusion(self, rb.history, rb.replay, fs, imu_pos, nq.quat, errors)

\* Mutant of DpointFilter_get_tip_pose: the query runs a predict pass first.
DpointFilter_get_tip_pose_predict(self) ==
    LET fs == ekf_predict(self.fs, Qpos)
    IN  [self |-> [self EXCEPT !.fs = fs], ret |-> get_tip_pose(fs.state)]

\* DpointFilter.get_tip_pose: the pose of self.fs.state; self is left alone.
DpointFilter_get_tip_pose(self) ==
    [self |-> self, ret |-> get_tip_pose(self.fs.state)]

\* -------------------------------------------------------- compare_workflows
\* z - h for two quaternions of the circle, as the signed index difference
\* along the shorter arc (-5..6).
QuatDiff(z, h) ==
    LET d == (z - h + 12) % 12
    IN  IF d > 6 THEN d - 12 ELSE d

\* repair_quaternion of filter_core: the quaternion scaled back to the unit
\* circle.
repair_quaternion(q) == q % 12

\* Mutant of standard_fuse_camera: the predicted measurement h is left at
\* zero, the innovation is the measurement itself.
standard_fuse_camera_origin(fs, imu_pos, orientation_quat) ==
    LET P == fs.statecov
        z == <<imu_pos, orientation_quat>>
    IN  FilterState([fs.state EXCEPT
                        !.pos = @ + RoundDiv(P * z[1], P + StandardNoisePos),
                        !.quat = repair_quaternion(
                                     @ + RoundDiv(P * QuatDiff(z[2], 0),
                                                  P + StandardNoiseQuat))],
                    (P * StandardNoisePos) \div (P + StandardNoisePos))

\* standard_fuse_camera of run_workflow: the coupled correction, h(state) =
\* (position, quaternion), z = (imu_pos, orientation_quat), each block with
\* the gain P / (P + R), and the quaternion repaired afterwards.
standard_fuse_camera(fs, imu_pos, orientation_quat) ==
    LET P == fs.statecov
        h == <<fs.state.pos, fs.state.quat>>
        z == <<imu_pos, orientation_quat>>
    IN  FilterState([fs.state EXCEPT
                        !.pos = @ + RoundDiv(P * (z[1] - h[1]), P + StandardNoisePos),
                        !.quat = repair_quaternion(
                                     @ + RoundDiv(P * QuatDiff(z[2], h[2]),
                                                  P + StandardNoiseQuat))],
                    (P * StandardNoisePos) \div (P + StandardNoisePos))

\* ------------------------------------------------------------ dodeca_bridge
\* transforms3d.quaternions.mat2quat(R) for R the rotation by 60 r degrees
\* about the x axis: of q and -q the one with w >= 0 ("if q[0] < 0: q *= -1").
\* At 180 degrees w is 0 up to rounding and the sign is the one the
\* eigenvector came with: either outcome.
mat2quat(R) ==
    LET r == R % 6
    IN  IF r = 3 THEN {3, 9} ELSE IF r > 3 THEN {r + 6} ELSE {r}

\* float(np.dot(a, b)) < 0.0: the cosine of the angle between the two, which
\* is negative for an index distance over 3 (90 degrees).
NegativeDot(a, b) == QuatDist(a, b) > 3

\* Mutant of rotmat_to_quat: the candidate is returned as it is.
rotmat_to_quat_noflip(q, prev) == [q |-> q, prev_q |-> <<q>>]

\* _rotmat_to_quat, given the outcome q of mat2quat and the global _prev_q:
\* the returned quaternion and the new _prev_q.
rotmat_to_quat(q, prev) ==
    LET out == IF prev # None /\ NegativeDot(q, prev[1]) THEN NegQuat(q) ELSE q
    IN  [q |-> out, prev_q |-> <<out>>]

\* get_vision_reading: None without a published pose, else the pose and the
\* time of the read (frame tells the published poses apart).
get_vision_reading(pose, now) ==
    IF pose = None THEN None
    ELSE <<[t |-> pose[1].t, R |-> pose[1].R, ts |-> now, frame |-> pose[1].frame]>>

\* make_ekf_measurements: the measurement dict, or None, and the new _prev_q.
make_ekf_measurements(pose, now, q, prev) ==
    LET out == get_vision_reading(pose, now)
    IN  IF out = None THEN [vis |-> None, prev_q |-> prev]
        ELSE LET rq == rotmat_to_quat(q, prev)
             IN  [vis |-> <<[center_pos_cam |-> out[1].t, R_cam |-> out[1].R,
                             q_cam |-> rq.q, timestamp |-> out[1].ts,
                             frame |-> out[1].frame]>>,
                  prev_q |-> rq.prev_q]

\* ------------------------------------------------------------ QueueConsumer
\* QueueConsumer.__init__ (the estimator it builds is DpointFilter(5, 0)).
QueueConsumer ==
    [should_end |-> FALSE, running |-> TRUE, finished |-> 0,
     trajectory |-> <<>>, saved |-> FALSE]

NoConsumer == [QueueConsumer EXCEPT !.running = FALSE]

\* The inner loop of run_queue_consumer: vis starts as None in every
\* iteration of the outer loop, one measurement is read, and the loop is left.
poll_vision(new_vis) ==
    LET vis0 == None
    IN  IF new_vis = None THEN vis0
        ELSE IF vis0 # None /\ new_vis[1].timestamp = vis0[1].timestamp THEN vis0
        ELSE new_vis

\* --------------------------------------------------------- monitor_ble_async
\* The BLE process before it is started: where it stands (pc), the
\* not-found / exception / disconnect cycles so far, the connections made,
\* the threads blocked in command_queue.get() oldest first (each named by the
\* connection that started it), the connections whose get() has returned, the
\* commands on the queue, and where the process stood when main put its
\* StopCommand ("no" before that).
NoBle ==
    [pc |-> "idle", cycles |-> 0, conn |-> 0, getters |-> <<>>, got |-> {},
     commands |-> 0, sent |-> "no"]

\* ------------------------------------------------------------ state machine
NoArg == [accel |-> 0, gyro |-> 0, imu_pos |-> 0, orientation_mat |-> 0]

\* No second estimator, no nearest_quaternion call, no application running.
NoSecond == other = None /\ pending = <<>>

NoApplication ==
    /\ object_pose = None
    /\ cv_shutdown_requested = FALSE
    /\ imu_queue = <<>>
    /\ prev_q = None
    /\ vis = None
    /\ fed = <<>>
    /\ clock = 0
    /\ consumer = NoConsumer
    /\ cv_thread = "none"
    /\ ble = NoBle

\* No offline tool running.
NoWorkflow == [mode |-> "none", first_cv |-> TRUE]

NoOffline ==
    /\ workflow = NoWorkflow
    /\ script = <<>>
    /\ blend = None
    /\ merge = None

Init ==
    /\ \E sl \in 0..MaxSmoothing, cd \in 0..MaxDelay : filter = DpointFilter(sl, cd)
    /\ ret = <<>>
    /\ last = "init"
    /\ arg = NoArg
    /\ work = NoWork
    /\ calls = 0
    /\ NoSecond
    /\ nearest = None
    /\ NoApplication
    /\ NoOffline

\* A caller's filter.update_imu(accel, gyro); it returns nothing.
UpdateImu ==
    /\ calls < MaxCalls
    /\ \E accel \in AccelVals, gyro \in GyroVals :
          /\ filter' = update_imu(filter, accel, gyro)
          /\ arg' = [NoArg EXCEPT !.accel = accel, !.gyro = gyro]
          /\ work' = [NoWork EXCEPT !.peak = Len(filter'.history)]
    /\ ret' = <<>>
    /\ last' = "imu"
    /\ calls' = calls + 1

\* A caller's filter.update_camera(imu_pos, orientation_mat).
UpdateCamera ==
    /\ calls < MaxCalls
    /\ \E imu_pos \in PosVals, orientation_mat \in RotVals :
          LET r == update_camera(filter, imu_pos, orientation_mat)
          IN  /\ filter' = r.self
              /\ ret' = r.ret
              /\ last' = r.branch
              /\ work' = r.work
              /\ arg' = [NoArg EXCEPT !.imu_pos = imu_pos,
                                      !.orientation_mat = orientation_mat]
    /\ calls' = calls + 1

Next ==
    \/ UpdateImu /\ UNCHANGED <<second, nearest, offline, application>>
    \/ UpdateCamera /\ UNCHANGED <<second, nearest, offline, application>>

Spec == Init /\ [][Next]_vars

\* --------------------------------------------- two estimators, the same calls
InitTwo ==
    /\ \E sl \in 0..MaxSmoothing, cd \in 0..MaxDelay :
          /\ filter = DpointFilter(sl, cd)
          /\ other = [filter |-> DpointFilter(sl, cd), ret |-> <<>>]
    /\ ret = <<>>
    /\ last = "init"
    /\ arg = NoArg
    /\ work = NoWork
    /\ calls = 0
    /\ pending = <<>>
    /\ nearest = None
    /\ NoApplication
    /\ NoOffline

\* The measured positions given to the two estimators: 0 and 0.5 m.
TwoPosVals == {0, 2}

\* A call of the first estimator; the call, what it returned and the
\* estimator it left are kept until the second has made the call too.
FirstCall ==
    /\ calls < MaxCallsShort
    /\ Len(pending) < MaxLag
    /\ UpdateImu \/ UpdateCamera
    /\ arg'.imu_pos \in TwoPosVals
    /\ pending' = Append(pending, [op |-> IF last' = "imu" THEN "imu" ELSE "camera",
                                   arg |-> arg', ret |-> ret', self |-> filter'])
    /\ UNCHANGED <<other, nearest, offline, application>>

\* The second estimator makes the oldest call it has not made yet.
SecondCall ==
    /\ pending # <<>>
    /\ LET c == Head(pending)
       IN  other' =
             IF c.op = "imu"
             THEN [filter |-> update_imu(other.filter, c.arg.accel, c.arg.gyro),
                   ret |-> <<>>]
             ELSE LET r == update_camera(other.filter, c.arg.imu_pos,
                                         c.arg.orientation_mat)
                  IN  [filter |-> r.self, ret |-> r.ret]
    /\ pending' = Tail(pending)
    /\ UNCHANGED <<estimator, nearest, offline, application>>

NextTwo == FirstCall \/ SecondCall

SpecTwo == InitTwo /\ [][NextTwo]_vars

\* ------------------------------------------------- the caller, fewer calls
NextShort == calls < MaxCallsShort /\ Next

SpecShort == Init /\ [][NextShort]_vars

\* ------------------------------------------------- the pose query in between
\* A caller's filter.get_tip_pose().
GetTipPose ==
    /\ LET r == DpointFilter_get_tip_pose(filter)
       IN  filter' = r.self /\ ret' = r.ret
    /\ last' = "pose"
    /\ UNCHANGED <<arg, work, calls>>

NextPose ==
    \/ NextShort
    \/ GetTipPose /\ UNCHANGED <<second, nearest, offline, application>>

SpecPose == Init /\ [][NextPose]_vars

\* ----------------------------------------------- nearest_quaternion on its own
InitNearest ==
    /\ nearest \in [reference : 0..11, new : 0..11, result : {None}]
    /\ filter = DpointFilter(0, 0)
    /\ ret = <<>>
    /\ last = "init"
    /\ arg = NoArg
    /\ work = NoWork
    /\ calls = 0
    /\ NoSecond
    /\ NoApplication
    /\ NoOffline

NearestQuaternion ==
    /\ nearest.result = None
    /\ nearest' = [nearest EXCEPT !.result = <<nearest_quaternion(nearest.reference, nearest.new)>>]
    /\ UNCHANGED <<estimator, second, application, offline>>

NextNearest == NearestQuaternion

SpecNearest == InitNearest /\ [][NextNearest]_vars

\* ------------------------------------------------------- the live application
\* The positions of the poses the vision loop publishes.
AppPosVals == {0, 1}

\* main of app.py after the threads are started: the consumer's estimator is
\* DpointFilter(dt=1/30, smoothing_length=5, camera_delay=0).
InitApp ==
    /\ filter = DpointFilter(5, 0)
    /\ ret = <<>>
    /\ last = "init"
    /\ arg = NoArg
    /\ work = NoWork
    /\ calls = 0
    /\ NoSecond
    /\ nearest = None
    /\ object_pose = None
    /\ cv_shutdown_requested = FALSE
    /\ imu_queue = <<>>
    /\ prev_q = None
    /\ vis = None
    /\ fed = <<>>
    /\ clock = 0
    /\ consumer = QueueConsumer
    /\ cv_thread = "opening"
    /\ ble = NoBle
    /\ NoOffline

\* start() opens the camera and loads the calibration, and enters its loop.
OpenCamera ==
    /\ cv_thread = "opening"
    /\ cv_thread' = "loop"
    /\ UNCHANGED <<estimator, second, nearest, offline, object_pose, cv_shutdown_requested,
                   imu_queue, prev_q, vis, fed, clock, consumer, ble>>

\* start() ends before its try statement: cap.isOpened() is false and it
\* returns, or loading the calibration raises.  _request_shutdown is not
\* called.
OpenFails ==
    /\ cv_thread = "opening"
    /\ cv_thread' = "returned"
    /\ UNCHANGED <<estimator, second, nearest, offline, object_pose, cv_shutdown_requested,
                   imu_queue, prev_q, vis, fed, clock, consumer, ble>>

\* The vision loop detects the pen in a frame: _publish_pose.
PublishPose ==
    /\ cv_thread = "loop"
    /\ LET frame == IF object_pose = None THEN 1 ELSE object_pose[1].frame + 1
       IN  /\ frame <= MaxFrames
           /\ \E t \in AppPosVals, R \in RotVals :
                 object_pose' = <<[t |-> t, R |-> R, frame |-> frame]>>
    /\ UNCHANGED <<estimator, second, nearest, offline, cv_shutdown_requested, imu_queue, prev_q,
                   vis, fed, clock, consumer, cv_thread, ble>>

\* The vision loop is left by the quit key or by an exception:
\* _request_shutdown in the loop and in the finally of start().
RequestShutdown ==
    /\ cv_thread = "loop"
    /\ cv_shutdown_requested' = TRUE
    /\ cv_thread' = "returned"
    /\ UNCHANGED <<estimator, second, nearest, offline, object_pose, imu_queue, prev_q, vis, fed,
                   clock, consumer, ble>>

\* The BLE notification handler puts one reading on the IMU queue.
BlePut ==
    /\ consumer.finished = 0
    /\ Len(imu_queue) < MaxReadings
    /\ \E accel \in AccelVals, gyro \in GyroVals :
          imu_queue' = Append(imu_queue, [accel |-> accel, gyro |-> gyro])
    /\ UNCHANGED <<estimator, second, nearest, offline, object_pose, cv_shutdown_requested, prev_q,
                   vis, fed, clock, consumer, cv_thread, ble>>

\* One iteration of the while loop of run_queue_consumer.  Without a
\* published pose it changes nothing; with one it reads the clock, converts
\* the rotation, calls update_camera and records the last returned position.
\* The IMU queue is not read.
ConsumerIteration ==
    /\ consumer.running /\ ~consumer.should_end /\ ~cv_shutdown_requested
    /\ IF object_pose = None
       THEN /\ vis' = poll_vision(None)
            /\ UNCHANGED <<estimator, prev_q, fed, clock, consumer>>
       ELSE /\ clock < MaxPolls
            /\ \E q \in mat2quat(object_pose[1].R) :
                  LET m == make_ekf_measurements(object_pose, clock + 1, q, prev_q)
                      v == poll_vision(m.vis)
                      r == update_camera(filter, v[1].center_pos_cam, v[1].R_cam)
                  IN  /\ prev_q' = m.prev_q
                      /\ vis' = v
                      /\ filter' = r.self
                      /\ ret' = r.ret
                      /\ last' = r.branch
                      /\ work' = r.work
                      /\ arg' = [NoArg EXCEPT !.imu_pos = v[1].center_pos_cam,
                                              !.orientation_mat = v[1].R_cam]
                      /\ fed' = Append(fed, v[1].frame)
                      /\ consumer' = IF r.ret # <<>>
                                     THEN [consumer EXCEPT !.trajectory =
                                              Append(@, r.ret[Len(r.ret)])]
                                     ELSE consumer
            /\ calls' = calls + 1
            /\ clock' = clock + 1
    /\ UNCHANGED <<second, nearest, offline, object_pose, cv_shutdown_requested, imu_queue,
                   cv_thread, ble>>

\* The loop is left: the trajectory is saved if there is one, finished is
\* emitted.
ConsumerFinish ==
    /\ consumer.running
    /\ consumer.should_end \/ cv_shutdown_requested
    /\ consumer' = [consumer EXCEPT !.running = FALSE, !.finished = @ + 1,
                                    !.saved = consumer.trajectory # <<>>]
    /\ UNCHANGED <<estimator, second, nearest, offline, object_pose, cv_shutdown_requested,
                   imu_queue, prev_q, vis, fed, clock, cv_thread, ble>>

\* main stops the consumer (the vision thread is dead, or the hard timeout).
StopData ==
    /\ consumer.running
    /\ ~consumer.should_end
    /\ consumer' = [consumer EXCEPT !.should_end = TRUE]
    /\ UNCHANGED <<estimator, second, nearest, offline, object_pose, cv_shutdown_requested,
                   imu_queue, prev_q, vis, fed, clock, cv_thread, ble>>

NextApp ==
    \/ OpenCamera
    \/ OpenFails
    \/ PublishPose
    \/ RequestShutdown
    \/ BlePut
    \/ ConsumerIteration
    \/ ConsumerFinish
    \/ StopData

SpecApp == InitApp /\ [][NextApp]_vars

\* The consumer's thread keeps running its loop.
SpecAppFair == SpecApp /\ WF_vars(ConsumerIteration)

\* ------------------------------------------------ run_workflow, the three modes
\* The measured positions of the recorded CV readings.
WorkflowPosVals == {0, 1}

\* run_workflow before its first event: DpointFilter(dt, smoothing_length=15,
\* camera_delay=5), first_cv = True, in one of the three modes.
InitWorkflow ==
    /\ filter = DpointFilter(15, 5)
    /\ ret = <<>>
    /\ last = "init"
    /\ arg = NoArg
    /\ work = NoWork
    /\ calls = 0
    /\ NoSecond
    /\ nearest = None
    /\ NoApplication
    /\ workflow \in {[mode |-> m, first_cv |-> TRUE] : m \in {"cv_only", "standard", "decoupled"}}
    /\ script = <<>>
    /\ blend = None
    /\ merge = None

\* An "IMU" event: in the standard mode predict and correct on filter.fs, no
\* history entry; in the decoupled mode filter.update_imu.  The cv_only mode
\* has no such events.
WorkflowImu ==
    /\ calls < MaxCallsShort
    /\ workflow.mode \in {"standard", "decoupled"}
    /\ \E accel \in AccelVals, gyro \in GyroVals :
          /\ filter' = IF workflow.mode = "standard"
                       THEN [filter EXCEPT
                                !.fs = fuse_imu(ekf_predict(filter.fs, Qpos), accel, gyro)]
                       ELSE update_imu(filter, accel, gyro)
          /\ arg' = [NoArg EXCEPT !.accel = accel, !.gyro = gyro]
          /\ work' = [NoWork EXCEPT !.peak = Len(filter'.history)]
    /\ ret' = <<>>
    /\ last' = "imu"
    /\ calls' = calls + 1
    /\ UNCHANGED <<second, nearest, application, offline>>

\* A "CV" event: the first one, and every one of the cv_only mode, writes
\* the measured pose into filter.fs; a later one is fused by
\* standard_fuse_camera or by filter.update_camera.  work records the two
\* residuals of the measurement against filter.fs.
WorkflowCv ==
    /\ calls < MaxCallsShort
    /\ \E center_pos \in WorkflowPosVals, r_cam \in RotVals :
          LET q_cam == get_orientation_quat(r_cam)
              residuals == [NoWork EXCEPT
                               !.pos_error = Abs(center_pos - filter.fs.state.pos),
                               !.or_error = QuatDist(q_cam, filter.fs.state.quat),
                               !.peak = Len(filter.history)]
              written == [filter EXCEPT
                             !.fs = FilterState(initial_state(<<center_pos>>, <<q_cam>>).state,
                                                filter.fs.statecov)]
              r == update_camera(filter, center_pos, r_cam)
          IN  /\ arg' = [NoArg EXCEPT !.imu_pos = center_pos, !.orientation_mat = r_cam]
              /\ IF workflow.first_cv
                 THEN /\ filter' = written
                      /\ ret' = <<>> /\ last' = "first" /\ work' = residuals
                 ELSE IF workflow.mode = "cv_only"
                 THEN /\ filter' = written
                      /\ ret' = <<>> /\ last' = "cv_only" /\ work' = residuals
                 ELSE IF workflow.mode = "standard"
                 THEN /\ filter' = [filter EXCEPT
                                       !.fs = standard_fuse_camera(filter.fs, center_pos,
                                                                   q_cam)]
                      /\ ret' = <<>> /\ last' = "standard" /\ work' = residuals
                 ELSE /\ filter' = r.self
                      /\ ret' = r.ret /\ last' = r.branch /\ work' = r.work
    /\ workflow' = [workflow EXCEPT !.first_cv = FALSE]
    /\ calls' = calls + 1
    /\ UNCHANGED <<second, nearest, application, script, blend, merge>>

NextWorkflow == WorkflowImu \/ WorkflowCv

SpecWorkflow == InitWorkflow /\ [][NextWorkflow]_vars

\* ------------------------------------------------------ the end-to-end scenario
\* The measured positions of the scenario: the origin and one unit from it
\* (within the reset threshold); the measured orientation is the identity.
ScenarioPosVals == {0, 1}

ScenarioRotVals == {0}

\* DpointFilter(dt=1/30, smoothing_length=5, camera_delay=0), no call made yet.
InitScenario ==
    /\ filter = DpointFilter(5, 0)
    /\ ret = <<>>
    /\ last = "init"
    /\ arg = NoArg
    /\ work = NoWork
    /\ calls = 0
    /\ NoSecond
    /\ nearest = None
    /\ NoApplication
    /\ NoOffline

\* filter.update_imu(accel, gyro), the call added to the calls made so far.
ScenarioImu ==
    /\ calls < MaxScenarioCalls
    /\ \E accel \in AccelVals, gyro \in GyroVals :
          /\ filter' = update_imu(filter, accel, gyro)
          /\ arg' = [NoArg EXCEPT !.accel = accel, !.gyro = gyro]
          /\ work' = [NoWork EXCEPT !.peak = Len(filter'.history)]
    /\ ret' = <<>>
    /\ last' = "imu"
    /\ calls' = calls + 1
    /\ script' = Append(script, [op |-> "imu", arg |-> arg'])
    /\ UNCHANGED <<second, nearest, application, workflow, blend, merge>>

\* filter.update_camera(imu_pos, orientation_mat), the call added to the
\* calls made so far.
ScenarioCamera ==
    /\ calls < MaxScenarioCalls
    /\ \E imu_pos \in ScenarioPosVals, orientation_mat \in ScenarioRotVals :
          LET r == update_camera(filter, imu_pos, orientation_mat)
          IN  /\ filter' = r.self
              /\ ret' = r.ret
              /\ last' = r.branch
              /\ work' = r.work
              /\ arg' = [NoArg EXCEPT !.imu_pos = imu_pos,
                                      !.orientation_mat = orientation_mat]
    /\ calls' = calls + 1
    /\ script' = Append(script, [op |-> "camera", arg |-> arg'])
    /\ UNCHANGED <<second, nearest, application, workflow, blend, merge>>

NextScenario == ScenarioImu \/ ScenarioCamera

SpecScenario == InitScenario /\ [][NextScenario]_vars

\* ------------------------------------- camera measurements with samples between
\* The calls of the scenario on an estimator of any smoothing_length and
\* camera_delay, long enough for a second fusion above an earlier anchor.
NextReplay == calls < MaxReplayCalls /\ NextScenario

SpecReplay == Init /\ [][NextReplay]_vars

\* ------------------------------------------------------------ the BLE process
\* main has started the BLE thread: monitor_ble_async is at the top of its
\* while loop, the command queue is empty.
InitBle ==
    /\ filter = DpointFilter(5, 0)
    /\ ret = <<>>
    /\ last = "init"
    /\ arg = NoArg
    /\ work = NoWork
    /\ calls = 0
    /\ NoSecond
    /\ nearest = None
    /\ object_pose = None
    /\ cv_shutdown_requested = FALSE
    /\ imu_queue = <<>>
    /\ prev_q = None
    /\ vis = None
    /\ fed = <<>>
    /\ clock = 0
    /\ consumer = QueueConsumer
    /\ cv_thread = "none"
    /\ ble = [NoBle EXCEPT !.pc = "scan"]
    /\ NoOffline

\* find_device_by_name returns None: sleep one second and scan again.
BleNotFound ==
    /\ ble.pc = "scan"
    /\ ble.cycles < MaxCycles
    /\ ble' = [ble EXCEPT !.cycles = @ + 1]
    /\ UNCHANGED <<estimator, second, nearest, offline, object_pose, cv_shutdown_requested,
                   imu_queue, prev_q, vis, fed, clock, consumer, cv_thread>>

\* find_device_by_name returns the device.
BleFound ==
    /\ ble.pc = "scan"
    /\ ble' = [ble EXCEPT !.pc = "connecting"]
    /\ UNCHANGED <<estimator, second, nearest, offline, object_pose, cv_shutdown_requested,
                   imu_queue, prev_q, vis, fed, clock, consumer, cv_thread>>

\* Entering BleakClient or start_notify raises: "Retrying in 1 second...",
\* back to the top of the loop.  No command task has been made.
BleConnectFails ==
    /\ ble.pc = "connecting"
    /\ ble.cycles < MaxCycles
    /\ ble' = [ble EXCEPT !.pc = "scan", !.cycles = @ + 1]
    /\ UNCHANGED <<estimator, second, nearest, offline, object_pose, cv_shutdown_requested,
                   imu_queue, prev_q, vis, fed, clock, consumer, cv_thread>>

\* The client is connected and notifying; the command task of this
\* connection starts a thread that blocks in command_queue.get(), behind the
\* threads earlier connections left there; asyncio.wait is awaited.
BleConnected ==
    /\ ble.pc = "connecting"
    /\ ble' = [ble EXCEPT !.pc = "connected", !.conn = @ + 1,
                          !.getters = Append(@, ble.conn + 1)]
    /\ UNCHANGED <<estimator, second, nearest, offline, object_pose, cv_shutdown_requested,
                   imu_queue, prev_q, vis, fed, clock, consumer, cv_thread>>

\* queue_notification_handler: a reading is put on the data queue.
BleNotify ==
    /\ ble.pc = "connected"
    /\ BlePut

\* The queue hands a command to the thread that has waited longest in
\* get(); the task of the connection that started the thread is done.
DeliverCommand ==
    /\ ble.commands > 0
    /\ ble.getters # <<>>
    /\ ble' = [ble EXCEPT !.commands = @ - 1, !.getters = Tail(@),
                          !.got = @ \cup {Head(ble.getters)}]
    /\ UNCHANGED <<estimator, second, nearest, offline, object_pose, cv_shutdown_requested,
                   imu_queue, prev_q, vis, fed, clock, consumer, cv_thread>>

\* asyncio.wait returns because the command task of this connection is done:
\* "Quitting BLE process", return.
BleQuit ==
    /\ ble.pc = "connected"
    /\ ble.conn \in ble.got
    /\ ble' = [ble EXCEPT !.pc = "returned"]
    /\ UNCHANGED <<estimator, second, nearest, offline, object_pose, cv_shutdown_requested,
                   imu_queue, prev_q, vis, fed, clock, consumer, cv_thread>>

\* asyncio.wait returns because the client disconnected: return if the
\* command task of this connection is done too, else "Disconnected from
\* BLE" and back to the top of the loop; the command task and its thread are
\* left as they are.
BleDisconnect ==
    /\ ble.pc = "connected"
    /\ ble.cycles < MaxCycles
    /\ ble' = IF ble.conn \in ble.got THEN [ble EXCEPT !.pc = "returned"]
              ELSE [ble EXCEPT !.pc = "scan", !.cycles = @ + 1]
    /\ UNCHANGED <<estimator, second, nearest, offline, object_pose, cv_shutdown_requested,
                   imu_queue, prev_q, vis, fed, clock, consumer, cv_thread>>

\* The finally of main: the BLE thread is alive, one StopCommand is put.
PutStopCommand ==
    /\ ble.pc \notin {"idle", "returned"}
    /\ ble.sent = "no"
    /\ ble' = [ble EXCEPT !.commands = @ + 1, !.sent = ble.pc]
    /\ UNCHANGED <<estimator, second, nearest, offline, object_pose, cv_shutdown_requested,
                   imu_queue, prev_q, vis, fed, clock, consumer, cv_thread>>

NextBle ==
    \/ BleNotFound
    \/ BleFound
    \/ BleConnectFails
    \/ BleConnected
    \/ BleNotify
    \/ DeliverCommand
    \/ BleQuit
    \/ BleDisconnect
    \/ PutStopCommand

SpecBle == InitBle /\ [][NextBle]_vars

\* The device is found and connected in the end, the queue hands over its
\* commands, and the event loop runs the coroutine on.
SpecBleFair ==
    /\ SpecBle
    /\ WF_vars(BleFound)
    /\ WF_vars(BleConnected)
    /\ WF_vars(DeliverCommand)
    /\ WF_vars(BleQuit)

\* ------------------------------------------------- blend_new_data on its own
\* The largest number of rows and the largest exponent tried.
MaxRows == 3

MaxAlpha == 2

\* The coordinates of the rows of the trail and of the replacement.
BlendVals == {0, 1}

RECURSIVE Pow(_, _)
Pow(x, n) == IF n = 0 THEN 1 ELSE x * Pow(x, n - 1)

\* np.linspace(start, 1, N) with start = 1 / 2 / N, as the fractions
\* linspace_num(N)[i] / linspace_den(N): N evenly spaced samples from start to
\* 1 with the end point included, and the single sample start when N = 1.
linspace_den(N) == IF N = 1 THEN 2 ELSE 2 * N * (N - 1)

linspace_num(N) ==
    [i \in 1..N |-> IF N = 1 THEN 1 ELSE (N - 1) + (i - 1) * (2 * N - 1)]

\* blend_new_data(old, new, alpha) for a whole exponent alpha: the factors
\* raised to alpha are mix_factor[i] / den, and the rows returned are
\* out[i] / den.
blend_new_data(old, new, alpha) ==
    LET N == Len(old)
        den == Pow(linspace_den(N), alpha)
        mix_factor == [i \in 1..N |-> Pow(linspace_num(N)[i], alpha)]
    IN  [den |-> den,
         mix_factor |-> mix_factor,
         out |-> [i \in 1..N |-> old[i] * (den - mix_factor[i]) + new[i] * mix_factor[i]]]

\* update_data is handed a result of N rows; old is the view of the last N
\* rows of the trail.
InitBlend ==
    /\ blend \in UNION {[old : [1..N -> BlendVals], new : [1..N -> BlendVals],
                         alpha : 1..MaxAlpha, result : {None}] : N \in 1..MaxRows}
    /\ filter = DpointFilter(0, 0)
    /\ ret = <<>>
    /\ last = "init"
    /\ arg = NoArg
    /\ work = NoWork
    /\ calls = 0
    /\ NoSecond
    /\ nearest = None
    /\ NoApplication
    /\ workflow = NoWorkflow
    /\ script = <<>>
    /\ merge = None

BlendNewData ==
    /\ blend # None
    /\ blend.result = None
    /\ blend' = [blend EXCEPT !.result = <<blend_new_data(blend.old, blend.new, blend.alpha)>>]
    /\ UNCHANGED <<estimator, second, nearest, application, workflow, script, merge>>

NextBlend == BlendNewData

SpecBlend == InitBlend /\ [][NextBlend]_vars

\* ------------------------------------------------------ merge_data on its own
\* Times are whole numbers of half hours (1800 s).  The longest recording and
\* the latest local_timestamp tried.
MaxMergeLen == 2

MaxTime == 3

\* The gap of one hour (3600 s) of find_sync_point.
HourGap == 2

\* The manual offsets tried.
ManualOffsets == {0, 1}

\* The readings of a recording: n stands for the fields align_timestamps
\* copies unchanged.
Readings(times) == [k \in 1..Len(times) |-> [n |-> k, local_timestamp |-> times[k]]]

\* Mutant of find_sync_point: each stream always gets its own start.
find_sync_point_own_start(imu_readings, cv_readings) ==
    LET imu_start == IF Len(imu_readings) = 0 THEN 0 ELSE imu_readings[1].local_timestamp
        cv_start == IF Len(cv_readings) = 0 THEN 0 ELSE cv_readings[1].local_timestamp
    IN  [imu_offset |-> imu_start, cv_offset |-> cv_start]

\* find_sync_point(imu_data, cv_data, "first_detection").  Any method other
\* than first_detection raises ValueError.
find_sync_point(imu_readings, cv_readings) ==
    LET imu_start == IF Len(imu_readings) = 0 THEN 0 ELSE imu_readings[1].local_timestamp
        cv_start == IF Len(cv_readings) = 0 THEN 0 ELSE cv_readings[1].local_timestamp
        sync_point == cv_start
        time_diff == cv_start - imu_start
    IN  IF Abs(time_diff) > HourGap
        THEN [imu_offset |-> imu_start, cv_offset |-> cv_start]
        ELSE [imu_offset |-> sync_point, cv_offset |-> sync_point]

RECURSIVE align_timestamps(_, _, _)
align_timestamps(readings, sync_offset, allow_negative) ==
    IF readings = <<>>
    THEN <<>>
    ELSE LET reading == Head(readings)
             rest == align_timestamps(Tail(readings), sync_offset, allow_negative)
         IN  IF allow_negative \/ reading.local_timestamp >= sync_offset
             THEN <<[n |-> reading.n,
                     timestamp |-> reading.local_timestamp - sync_offset,
                     local_timestamp |-> reading.local_timestamp - sync_offset]>> \o rest
             ELSE rest

\* merge_data up to the merged structure it writes.
merge_data(imu_readings, cv_readings, sync_method, manual_offset) ==
    LET offsets ==
            IF sync_method = "manual"
            THEN IF Len(imu_readings) > 0 /\ Len(cv_readings) > 0
                 THEN [imu_offset |-> imu_readings[1].local_timestamp,
                       cv_offset |-> cv_readings[1].local_timestamp + manual_offset]
                 ELSE [imu_offset |-> 0, cv_offset |-> manual_offset]
            ELSE find_sync_point(imu_readings, cv_readings)
    IN  [imu_sync_offset |-> offsets.imu_offset,
         cv_sync_offset |-> offsets.cv_offset,
         imu_readings |-> align_timestamps(imu_readings, offsets.imu_offset, TRUE),
         cv_readings |-> align_timestamps(cv_readings, offsets.cv_offset, FALSE)]

\* The two recordings as loaded from their files, and the arguments.
InitMerge ==
    /\ \E imu_times \in UNION {[1..n -> 0..MaxTime] : n \in 0..MaxMergeLen},
          cv_times \in UNION {[1..n -> 0..MaxTime] : n \in 0..MaxMergeLen},
          sync_method \in {"first_detection", "manual"},
          manual_offset \in ManualOffsets :
            /\ sync_method = "first_detection" => manual_offset = 0
            /\ merge = <<[imu_readings |-> Readings(imu_times),
                          cv_readings |-> Readings(cv_times),
                          sync_method |-> sync_method,
                          manual_offset |-> manual_offset,
                          merged |-> None]>>
    /\ filter = DpointFilter(0, 0)
    /\ ret = <<>>
    /\ last = "init"
    /\ arg = NoArg
    /\ work = NoWork
    /\ calls = 0
    /\ NoSecond
    /\ nearest = None
    /\ NoApplication
    /\ workflow = NoWorkflow
    /\ script = <<>>
    /\ blend = None

MergeData ==
    /\ merge # None
    /\ merge[1].merged = None
    /\ merge' = <<[merge[1] EXCEPT !.merged =
                      <<merge_data(merge[1].imu_readings, merge[1].cv_readings,
                                   merge[1].sync_method, merge[1].manual_offset)>>]>>
    /\ UNCHANGED <<estimator, second, nearest, application, workflow, script, blend>>

NextMerge == MergeData

SpecMerge == InitMerge /\ [][NextMerge]_vars

\* ---------------------------------------------------------------- properties
\* A step that is one update_camera call, and one that is one update_imu call.
CameraStep == calls' = calls + 1 /\ last' # "imu"

ImuStep == calls' = calls + 1 /\ last' = "imu"

\* The number of entries the rollback takes from a history of n entries, and
\* the index of the anchor entry, written out from the claims' words.
Rolled(n, camera_delay) == IF n >= camera_delay + 1 THEN camera_delay ELSE n - 1

AnchorIndex(n, camera_delay) == n - Rolled(n, camera_delay)

\* C1: the history never holds more than smoothing_length + camera_delay + 1
\* entries, after a call and after every update_imu made inside a call (the
\* replay of update_camera included).
C1_HistoryBounded ==
    /\ Len(filter.history) <= filter.smoothing_length + filter.camera_delay + 1
    /\ work.peak <= filter.smoothing_length + filter.camera_delay + 1

\* A full history, after an eviction, that a camera fusion rolled back and
\* replayed.
C1_Witness ==
    /\ last = "fusion"
    /\ work.replayed > 0
    /\ Len(filter.history) = filter.smoothing_length + filter.camera_delay + 1
    /\ calls > Len(filter.history) + 1

\* C2: update_camera on an empty history returns exactly the measured
\* position and leaves the FilterState built from the measured position and
\* orientation (zero velocity, acceleration and angular velocity, the initial
\* covariance) after one predict pass.
C2_ColdStart ==
    [][(CameraStep /\ filter.history = <<>>) =>
          /\ last' = "cold"
          /\ ret' = <<arg'.imu_pos>>
          /\ filter'.fs.state = [pos |-> arg'.imu_pos, vel |-> 0, acc |-> 0, av |-> 0,
                                 quat |-> get_orientation_quat(arg'.orientation_mat)]
          /\ filter'.fs.statecov = InitCov + Qpos]_vars

\* A cold start, after earlier calls, from a measurement away from the origin.
C2_Witness ==
    /\ last = "cold"
    /\ calls >= 3
    /\ arg.imu_pos = 2
    /\ arg.orientation_mat = 3
    /\ ret = <<2>>

\* C3 as stated: a measured position more than 0.5 m from the current
\* (newest) state resets: one position, the measured one, is returned and the
\* history is empty.
C3_ResetAgainstNewest ==
    [][(CameraStep /\ filter.history # <<>>
          /\ Abs(arg'.imu_pos - filter.fs.state.pos) > PosThreshold) =>
          /\ ret' = <<arg'.imu_pos>>
          /\ filter'.history = <<>>]_vars

\* C3 as amended: a measured position more than 0.5 m from the corrected
\* position of the anchor entry (the entry min(len - 1, camera_delay) before
\* the newest) resets: one position, the measured one, is returned and the
\* history is empty; the update_camera that follows a reset at once takes the
\* cold-start branch.
C3_ResetAgainstAnchor ==
    [][/\ (CameraStep /\ filter.history # <<>>
             /\ Abs(arg'.imu_pos
                    - filter.history[AnchorIndex(Len(filter.history),
                                                 filter.camera_delay)].updated_state.pos)
                  > PosThreshold) =>
             /\ last' = "reset"
             /\ ret' = <<arg'.imu_pos>>
             /\ filter'.history = <<>>
       /\ (CameraStep /\ last = "reset") => last' = "cold"]_vars

\* A reset on the position residual, with entries rolled back before the
\* check.
C3_Witness ==
    /\ last = "reset"
    /\ work.rolled > 0
    /\ work.pos_error > PosThreshold
    /\ work.or_error = 0
    /\ ret = <<arg.imu_pos>>
    /\ filter.history = <<>>

\* C4 as stated: after update_camera on a COLD estimator (the cold-start
\* branch) the history is non-empty.
C4_ColdCameraTracks == last = "cold" => filter.history # <<>>

\* C4 as amended: update_camera on a COLD estimator leaves it COLD; the only
\* call that takes the estimator from COLD to TRACKING is update_imu.
C4_OnlyImuLeavesCold ==
    [][/\ (CameraStep /\ filter.history = <<>>) => filter'.history = <<>>
       /\ (filter.history = <<>> /\ filter'.history # <<>>) => ImuStep]_vars

\* A cold start that followed other calls and left the history empty.
C4_Witness == last = "cold" /\ calls >= 2 /\ filter.history = <<>>

\* C5: update_imu appends one entry (the new corrected state and covariance,
\* the predicted state and covariance before the correction, the raw sample)
\* and removes at most the oldest entry; the history is non-empty afterwards.
C5_ImuAppendsOne ==
    [][ImuStep =>
          LET predicted == ekf_predict(filter.fs, Qpos)
              e == [updated_state |-> filter'.fs.state,
                    updated_statecov |-> filter'.fs.statecov,
                    predicted_state |-> predicted.state,
                    predicted_statecov |-> predicted.statecov,
                    accel |-> <<arg'.accel>>, gyro |-> <<arg'.gyro>>]
          IN  /\ filter'.history # <<>>
              /\ filter'.history[Len(filter'.history)] = e
              /\ \/ filter'.history = Append(filter.history, e)
                 \/ filter'.history = Tail(Append(filter.history, e))]_vars

\* An update_imu on a full history: the oldest entry went, and the new entry's
\* corrected state differs from its predicted state.
C5_Witness ==
    /\ last = "imu"
    /\ Len(filter.history) = filter.smoothing_length + filter.camera_delay + 1
    /\ calls > Len(filter.history)
    /\ filter.history[Len(filter.history)].updated_state
         # filter.history[Len(filter.history)].predicted_state

\* C6: on a non-empty history update_camera rolls back exactly
\* min(len - 1, camera_delay) entries, so that the anchor is the entry
\* camera_delay before the newest, or the oldest entry of a shorter history;
\* at least the anchor stays.
C6_RollbackCount ==
    [][(CameraStep /\ filter.history # <<>>) =>
          LET n == Len(filter.history)
          IN  /\ work'.rolled = Min(n - 1, filter.camera_delay)
              /\ work'.anchor = (IF n > filter.camera_delay
                                 THEN n - filter.camera_delay ELSE 1)
              /\ work'.anchor >= 1
              /\ work'.rolled + work'.anchor = n
              /\ last' = "fusion" =>
                     /\ filter'.history[work'.anchor].accel = None
                     /\ \A i \in (work'.anchor + 1)..n :
                            filter'.history[i].accel # None]_vars

\* A fusion that rolled back camera_delay > 0 entries and kept older entries
\* than the anchor.
C6_Witness ==
    /\ last = "fusion"
    /\ work.rolled = filter.camera_delay
    /\ work.rolled > 0
    /\ work.anchor > 1

\* C7: on a non-empty history update_camera resets exactly when the position
\* residual against the anchor is strictly over 0.5 m or the orientation
\* residual (the nearer of q and -q) is strictly over 1.0; the reset rebuilds
\* the FilterState from the measurement, empties the history, replays nothing
\* and returns one position.
C7_ResetExactly ==
    [][(CameraStep /\ filter.history # <<>>) =>
          LET a == filter.history[AnchorIndex(Len(filter.history), filter.camera_delay)]
              q == get_orientation_quat(arg'.orientation_mat)
              perr == Abs(arg'.imu_pos - a.updated_state.pos)
              oerr == Min(QuatDist(a.updated_state.quat, q),
                          QuatDist(a.updated_state.quat, NegQuat(q)))
          IN  /\ last' \in {"reset", "fusion"}
              /\ last' = "reset" <=> (perr > PosThreshold \/ oerr > OrThreshold)
              /\ last' = "reset" =>
                     /\ filter'.history = <<>>
                     /\ work'.replayed = 0
                     /\ Len(ret') = 1
                     /\ filter'.fs.state.pos = arg'.imu_pos
                     /\ filter'.fs.state.quat \in {q, NegQuat(q)}
                     /\ QuatDist(a.updated_state.quat, filter'.fs.state.quat) = oerr
                     /\ filter'.fs.state.vel = 0 /\ filter'.fs.state.acc = 0
                     /\ filter'.fs.statecov = InitCov]_vars

\* A fusion at both thresholds at once: residuals of exactly 0.5 m and 1.0.
C7_Witness ==
    /\ last = "fusion"
    /\ work.pos_error = PosThreshold
    /\ work.or_error = OrThreshold

\* C8: on the fusion path the anchor entry keeps the predicted state and
\* covariance it held before the call, and its corrected state and covariance
\* become the camera-corrected ones.
C8_AnchorReplaced ==
    [][(CameraStep /\ last' = "fusion") =>
          LET i == AnchorIndex(Len(filter.history), filter.camera_delay)
              old == filter.history[i]
              new == filter'.history[i]
              corrected == fuse_camera(FilterState(old.updated_state, old.updated_statecov),
                                       arg'.imu_pos, 0, CameraNoisePos)
          IN  /\ new.predicted_state = old.predicted_state
              /\ new.predicted_statecov = old.predicted_statecov
              /\ new.updated_state = corrected.state
              /\ new.updated_statecov = corrected.statecov]_vars

\* A fusion whose anchor has a corrected pair different from its predicted
\* pair, in position and in covariance.
C8_Witness ==
    /\ last = "fusion"
    /\ work.pos_error > 0
    /\ filter.history[work.anchor].updated_state.pos
         # filter.history[work.anchor].predicted_state.pos
    /\ filter.history[work.anchor].updated_statecov
         # filter.history[work.anchor].predicted_statecov

\* C9: on the fusion path every rolled-back entry is replayed by update_imu
\* with its own sample, oldest first: the entries newer than the anchor carry
\* the same samples in the same order as before the call, and each is the
\* inertial step (predict, then correct with that sample) from the entry
\* below it.
C9_ReplayInOrder ==
    [][(CameraStep /\ last' = "fusion") =>
          LET n == Len(filter.history)
              a == AnchorIndex(n, filter.camera_delay)
          IN  /\ Len(filter'.history) = n
              /\ work'.replayed = n - a
              /\ \A i \in (a + 1)..n :
                    LET below == filter'.history[i - 1]
                        e == filter'.history[i]
                        predicted == ekf_predict(FilterState(below.updated_state,
                                                             below.updated_statecov), Qpos)
                    IN  /\ e.accel = filter.history[i].accel
                        /\ e.gyro = filter.history[i].gyro
                        /\ e.accel # None /\ e.gyro # None
                        /\ e.predicted_state = predicted.state
                        /\ e.predicted_statecov = predicted.statecov
                        /\ e.updated_state
                             = fuse_imu(predicted, e.accel[1], e.gyro[1]).state
              /\ filter'.fs.state = filter'.history[n].updated_state]_vars

\* A fusion that replayed two entries with different samples.
C9_Witness ==
    /\ last = "fusion"
    /\ work.replayed = 2
    /\ filter.history[Len(filter.history)].accel
         # filter.history[Len(filter.history) - 1].accel

\* C10: on the fusion path the returned list has one position per entry of
\* the history before the call: the smoothed positions of the retained
\* entries, oldest first and the anchor last, then the positions after each
\* replayed sample.
C10_ReturnedList ==
    [][(CameraStep /\ last' = "fusion") =>
          LET n == Len(filter.history)
              a == AnchorIndex(n, filter.camera_delay)
              smoothed == ekf_smooth(SubSeq(filter'.history, 1, a))
          IN  /\ Len(ret') = n
              /\ \A i \in 1..a : ret'[i] = smoothed[i].pos
              /\ ret'[a] = filter'.history[a].updated_state.pos
              /\ \A i \in (a + 1)..n : ret'[i] = filter'.history[i].updated_state.pos]_vars

\* A fusion that returned smoothed positions for entries older than the
\* anchor, the oldest one moved by the smoothing, and replayed positions.
C10_Witness ==
    /\ last = "fusion"
    /\ work.anchor > 1
    /\ work.rolled > 0
    /\ Len(ret) = Len(filter.history)
    /\ ret[1] # filter.history[1].updated_state.pos

\* Each entry above the oldest is the inertial step from the entry below it:
\* its predicted pair is the prediction from the corrected pair below.
InStepOrder(history) ==
    \A i \in 2..Len(history) :
        LET predicted == ekf_predict(FilterState(history[i - 1].updated_state,
                                                 history[i - 1].updated_statecov), Qpos)
        IN  /\ history[i].predicted_state = predicted.state
            /\ history[i].predicted_statecov = predicted.statecov

\* C11: the history is in the order of the inertial steps that made its
\* entries.  update_imu puts its entry at the newest end and, only when the
\* history was full, removes the oldest one and no other; a fusion keeps the
\* length, the entries older than the anchor and, entry by entry, the samples
\* of the entries newer than the anchor; after every call each entry is the
\* inertial step from the entry below it.
C11_ChronologicalFifo ==
    [][/\ ImuStep =>
             LET n == Len(filter.history)
                 e == filter'.history[Len(filter'.history)]
                 full == n = filter.smoothing_length + filter.camera_delay + 1
             IN  /\ e.accel = <<arg'.accel>> /\ e.gyro = <<arg'.gyro>>
                 /\ filter'.history = IF full THEN Tail(Append(filter.history, e))
                                      ELSE Append(filter.history, e)
       /\ (CameraStep /\ last' = "fusion") =>
             LET n == Len(filter.history)
                 a == AnchorIndex(n, filter.camera_delay)
             IN  /\ Len(filter'.history) = n
                 /\ \A i \in 1..(a - 1) : filter'.history[i] = filter.history[i]
                 /\ \A i \in (a + 1)..n :
                       /\ filter'.history[i].accel = filter.history[i].accel
                       /\ filter'.history[i].gyro = filter.history[i].gyro
       /\ InStepOrder(filter'.history)]_vars

\* A fusion on a full history that had lost its oldest entry: one entry
\* rolled back and replayed above a sample-less anchor.
C11_Witness ==
    /\ last = "fusion"
    /\ work.rolled = 1
    /\ Len(filter.history) = filter.smoothing_length + filter.camera_delay + 1
    /\ calls = Len(filter.history) + 2
    /\ filter.history[work.anchor].accel = None
    /\ filter.history[Len(filter.history)].accel # None

\* C12: update_imu leaves every entry it found as it was (they move down by
\* one place when the oldest is evicted); a fusion leaves every entry older
\* than the anchor identical, although the smoothed positions it returns for
\* them differ from the stored ones, keeps the anchor's predicted pair, and
\* leaves as FilterState the corrected pair of the newest entry.
C12_OnlyAnchorChanged ==
    [][/\ ImuStep =>
             LET n == Len(filter.history)
                 shift == n + 1 - Len(filter'.history)
             IN  /\ shift \in {0, 1}
                 /\ \A i \in 1..(Len(filter'.history) - 1) :
                       filter'.history[i] = filter.history[i + shift]
       /\ (CameraStep /\ last' = "fusion") =>
             LET n == Len(filter.history)
                 a == AnchorIndex(n, filter.camera_delay)
             IN  /\ \A i \in 1..(a - 1) : filter'.history[i] = filter.history[i]
                 /\ filter'.history[a].predicted_state = filter.history[a].predicted_state
                 /\ filter'.history[a].predicted_statecov
                      = filter.history[a].predicted_statecov
                 /\ filter'.fs = FilterState(filter'.history[n].updated_state,
                                             filter'.history[n].updated_statecov)]_vars

\* A fusion without rollback whose smoothing moved the position of an entry
\* older than the anchor: the returned position is not the stored one.
C12_Witness ==
    /\ last = "fusion"
    /\ work.rolled = 0
    /\ work.anchor > 1
    /\ ret[1] # filter.history[1].updated_state.pos
    /\ filter.fs.state = filter.history[work.anchor].updated_state

C14_NoStaleRepeat == \A i, j \in 1..Len(fed) : i # j => fed[i] # fed[j]

\* C15: every reading on the IMU queue is in the end taken by the consumer
\* and applied with update_imu, leaving a history entry, unless the consumer
\* is stopped first.
C15_ReadingsApplied ==
    (imu_queue # <<>>)
        ~> \/ last = "imu" /\ filter.history # <<>>
           \/ ~consumer.running \/ consumer.should_end \/ cv_shutdown_requested

\* A step in which the consumer read a measurement (one _rotmat_to_quat call).
MeasureStep == clock' = clock + 1

\* C16: each quaternion _rotmat_to_quat returns is the conversion of the
\* rotation or its negation, has a non-negative dot product with the one the
\* previous call returned, and is what _prev_q holds afterwards.
C16_SignContinuity ==
    [][MeasureStep =>
          /\ vis' # None
          /\ \E q \in mat2quat(vis'[1].R_cam) : vis'[1].q_cam \in {q, NegQuat(q)}
          /\ prev_q # None => ~NegativeDot(vis'[1].q_cam, prev_q[1])
          /\ vis # None => prev_q = <<vis[1].q_cam>>
          /\ prev_q' = <<vis'[1].q_cam>>]_vars

\* A later call whose candidate was negated: the returned quaternion is not
\* an outcome of the conversion.
C16_Witness ==
    /\ clock >= 2
    /\ vis # None
    /\ vis[1].q_cam \notin mat2quat(vis[1].R_cam)
    /\ prev_q = <<vis[1].q_cam>>

\* C17: nearest_quaternion(reference, new) returns new or -new, the one
\* nearer to reference, and the distance of the returned quaternion to
\* reference, which is the smaller of |reference - new| and |reference + new|;
\* when the two distances are equal it returns -new.
C17_NearestQuaternion ==
    nearest.result # None =>
        LET r == nearest.result[1]
            d1 == QuatDist(nearest.reference, nearest.new)
            d2 == QuatDist(nearest.reference, NegQuat(nearest.new))
        IN  /\ r.quat \in {nearest.new, NegQuat(nearest.new)}
            /\ r.error = Min(d1, d2)
            /\ r.error = QuatDist(nearest.reference, r.quat)
            /\ d1 < d2 => r.quat = nearest.new
            /\ d2 < d1 => r.quat = NegQuat(nearest.new)
            /\ d1 = d2 => r.quat = NegQuat(nearest.new)

\* A call on a tie, the two quaternions at a right angle: -new came back.
C17_Witness ==
    /\ nearest.result # None
    /\ QuatDist(nearest.reference, nearest.new) = 3
    /\ nearest.reference # 0
    /\ nearest.result[1] = [quat |-> NegQuat(nearest.new), error |-> 3]

\* C18: a call does a bounded amount of work: update_camera pops at most
\* camera_delay entries in the rollback, smooths at most smoothing_length +
\* camera_delay + 1 entries and replays at most camera_delay samples (as many
\* as it rolled back), and update_imu does none of the three.
C18_BoundedWork ==
    /\ work.rolled <= filter.camera_delay
    /\ work.smoothed <= filter.smoothing_length + filter.camera_delay + 1
    /\ work.replayed <= filter.camera_delay
    /\ work.replayed <= work.rolled
    /\ last = "imu" => (work.rolled = 0 /\ work.smoothed = 0 /\ work.replayed = 0)

\* A fusion that rolled back and replayed camera_delay = MaxDelay entries.
C18_Witness ==
    /\ last = "fusion"
    /\ filter.camera_delay = MaxDelay
    /\ work.rolled = MaxDelay
    /\ work.replayed = MaxDelay
    /\ work.smoothed >= 1

\* A step that is one get_tip_pose call of the estimator.
PoseStep == last' = "pose" /\ calls' = calls

\* C19: get_tip_pose returns the position and the quaternion of the current
\* FilterState and changes neither the FilterState nor the history; a second
\* call with no update in between returns the same pose.
C19_PoseQuery ==
    [][PoseStep =>
          /\ ret' = <<filter.fs.state.pos, filter.fs.state.quat>>
          /\ filter' = filter
          /\ last = "pose" => ret' = ret]_vars

\* The pose queried after updates that moved the estimator and turned it,
\* with entries in the history.
C19_Witness ==
    /\ last = "pose"
    /\ calls = MaxCallsShort
    /\ filter.history # <<>>
    /\ ret = <<filter.fs.state.pos, filter.fs.state.quat>>
    /\ ret[1] # 0
    /\ ret[2] # 0

\* The measured orientations that take the fusion path from the current
\* estimator with the measured position imu_pos, and the estimators
\* update_camera leaves for them.
FusionRots(imu_pos) ==
    {R \in RotVals : update_camera(filter, imu_pos, R).branch = "fusion"}

FusedWith(imu_pos) ==
    {update_camera(filter, imu_pos, R).self : R \in FusionRots(imu_pos)}

C22_ZeroInnovationIdempotent ==
    [][/\ (calls' = calls + 1 /\ last' = "standard"
             /\ arg'.imu_pos = filter.fs.state.pos
             /\ get_orientation_quat(arg'.orientation_mat) = filter.fs.state.quat) =>
             filter'.fs.state = filter.fs.state
       /\ (calls' = calls + 1 /\ last' = "fusion"
             /\ arg'.imu_pos = filter.history[work'.anchor].updated_state.pos) =>
             filter'.history[work'.anchor].updated_state
                 = filter.history[work'.anchor].updated_state
       /\ (ImuStep /\ arg'.accel = ekf_predict(filter.fs, Qpos).state.acc
                   /\ arg'.gyro = ekf_predict(filter.fs, Qpos).state.av) =>
             filter'.fs.state = ekf_predict(filter.fs, Qpos).state]_vars

\* A coupled correction with zero innovation in both blocks, of a state
\* away from the origin and turned from the identity.
C22_Witness ==
    /\ last = "standard"
    /\ work.pos_error = 0
    /\ work.or_error = 0
    /\ filter.fs.state.pos # 0
    /\ filter.fs.state.quat # 0

\* The calls of the scenario: the camera measurement at the origin with the
\* identity orientation, then n inertial samples of zero acceleration and
\* zero angular rate.
ScenarioPrefix(n) ==
    [i \in 1..(n + 1) |->
        IF i = 1 THEN [op |-> "camera", arg |-> NoArg] ELSE [op |-> "imu", arg |-> NoArg]]

\* C23: on DpointFilter(dt=1/30, smoothing_length=5, camera_delay=0) the
\* first update_camera, at the origin with the identity orientation, returns
\* exactly the one position 0; each of the five update_imu calls with zero
\* acceleration and zero angular rate that follow leaves the position at 0;
\* the update_camera that follows, one unit from the origin with the identity
\* orientation, takes the fusion path and the last position it returns is the
\* measured one, the part of the innovation left uncorrected, R / (P + R),
\* being within the tenth of it that 1e-3 is of 0.01.
C23_EndToEndScenario ==
    [][/\ (script = <<>> /\ script' = ScenarioPrefix(0)) => ret' = <<0>>
       /\ \A n \in 0..4 :
             (script = ScenarioPrefix(n) /\ script' = ScenarioPrefix(n + 1)) =>
                 /\ filter'.fs.state.pos = 0
                 /\ Len(filter'.history) = n + 1
       /\ (script = ScenarioPrefix(5) /\ Len(script') = 7
             /\ script'[7] = [op |-> "camera", arg |-> [NoArg EXCEPT !.imu_pos = 1]]) =>
                 /\ last' = "fusion"
                 /\ filter'.history # <<>>
                 /\ ret'[Len(ret')] = 1
                 /\ LET P == filter.history[Len(filter.history)].updated_statecov
                    IN  10 * CameraNoisePos <= P + CameraNoisePos]_vars

\* The whole scenario has run: the last call fused the measurement one unit
\* from the origin and returned the five positions of the history, the last
\* of them the measured one.
C23_Witness ==
    /\ script = Append(ScenarioPrefix(5),
                       [op |-> "camera", arg |-> [NoArg EXCEPT !.imu_pos = 1]])
    /\ last = "fusion"
    /\ Len(ret) = 5
    /\ ret[5] = 1
    /\ filter.fs.state.pos = 1

\* C24: whenever the history is non-empty after a call, the FilterState
\* (state and covariance) is the corrected pair of the newest entry.
C24_StateIsNewestEntry ==
    filter.history # <<>> =>
        LET newest == filter.history[Len(filter.history)]
        IN  filter.fs = FilterState(newest.updated_state, newest.updated_statecov)

\* A fusion that replayed samples above a corrected anchor, and left the
\* estimator away from the origin with the newest entry's pair.
C24_Witness ==
    /\ last = "fusion"
    /\ work.replayed > 0
    /\ work.pos_error > 0
    /\ filter.fs.state.pos # 0
    /\ filter.fs.state = filter.history[Len(filter.history)].updated_state
    /\ filter.fs.statecov = filter.history[Len(filter.history)].updated_statecov
    /\ filter.fs.statecov # filter.history[work.anchor].updated_statecov

\* No entry newer than the anchor the next rollback would reach lacks its
\* sample.
SamplesAboveAnchor(self) ==
    \A i \in 1..Len(self.history) :
        i > AnchorIndex(Len(self.history), self.camera_delay) =>
            self.history[i].accel # None /\ self.history[i].gyro # None

\* C25: a fusion leaves the history as long as it was and the entries older
\* than the anchor in place; the anchor it stores carries no sample, every
\* entry it rolled back carried one and was replayed; and after every call
\* no entry that a later rollback would take lacks its sample.
C25_ReplayLosesNothing ==
    [][/\ (CameraStep /\ last' = "fusion") =>
             LET n == Len(filter.history)
                 a == AnchorIndex(n, filter.camera_delay)
             IN  /\ Len(filter'.history) = n
                 /\ \A i \in 1..(a - 1) : filter'.history[i] = filter.history[i]
                 /\ filter'.history[a].accel = None /\ filter'.history[a].gyro = None
                 /\ \A i \in (a + 1)..n :
                       filter.history[i].accel # None /\ filter.history[i].gyro # None
                 /\ work'.rolled = n - a
                 /\ work'.replayed = work'.rolled
       /\ SamplesAboveAnchor(filter')]_vars

\* A second fusion that rolled back and replayed an entry above its anchor
\* while the sample-less anchor of an earlier fusion lay below it.
C25_Witness ==
    /\ last = "fusion"
    /\ work.rolled >= 1
    /\ work.replayed = work.rolled
    /\ work.anchor >= 2
    /\ \E i \in 1..(work.anchor - 1) : filter.history[i].accel = None
    /\ filter.history[work.anchor].accel = None

\* C26: on every path of update_camera the returned list is not empty and
\* its last element is the position get_tip_pose reports for the estimator
\* the call left.
C26_LastIsCurrentTip ==
    [][CameraStep =>
          /\ ret' # <<>>
          /\ ret'[Len(ret')] = DpointFilter_get_tip_pose(filter').ret[1]
          /\ DpointFilter_get_tip_pose(filter').self = filter']_vars

\* A fusion whose replay moved the estimator away from the corrected
\* anchor: the last returned position is the current one and not the
\* anchor's.
C26_Witness ==
    /\ last = "fusion"
    /\ work.replayed > 0
    /\ Len(ret) >= 2
    /\ ret[Len(ret)] = filter.fs.state.pos
    /\ ret[Len(ret)] # filter.history[work.anchor].updated_state.pos

\* C27: once a StopCommand is on the command queue while the client is
\* connected, monitor_ble_async returns in the end, whatever cycles of
\* device-not-found, exception and disconnect came before; and it returns
\* only after a command was put.
C27_StopCommandReturns ==
    /\ (ble.sent = "connected" /\ ble.pc = "connected" /\ ble.commands > 0)
          ~> (ble.pc = "returned")
    /\ [](ble.pc = "returned" => ble.sent # "no")


\* C28: whenever the vision loop function start() has terminated (quit key,
\* exception, or failure to open the camera), shutdown has been requested.
\* The rest of the claim is FlagStaysSet and ConsumerLeavesAfterFlag below.
C28_TerminationRequestsShutdown ==
    cv_thread = "returned" => cv_shutdown_requested

\* The shutdown flag never reverts to false once set.
FlagStaysSet == [][cv_shutdown_requested => cv_shutdown_requested']_vars

\* Once the flag is set the consumer makes no further update_camera call, and
\* finished is emitted at most once.
ConsumerLeavesAfterFlag ==
    [][/\ cv_shutdown_requested => fed' = fed
       /\ consumer'.finished <= 1
       /\ consumer'.finished # consumer.finished =>
             ~consumer'.running /\ consumer'.finished = consumer.finished + 1]_vars


\* C29: for every N >= 1 rows and alpha > 0 the mix factor of blend_new_data
\* is non-decreasing from the oldest to the newest row and equals 1 for the
\* newest row, so the last output row equals the last row of the new data,
\* N = 1 included.
C29_BlendEndsAtNew ==
    blend # None /\ blend.result # None =>
        LET r == blend.result[1]
            N == Len(blend.old)
        IN  /\ \A i \in 1..(N - 1) : r.mix_factor[i] <= r.mix_factor[i + 1]
            /\ r.mix_factor[N] = r.den
            /\ r.out[N] = blend.new[N] * r.den

\* The same for two rows and more.
BlendEndsAtNewFromTwoRows ==
    blend # None /\ blend.result # None /\ Len(blend.old) >= 2 =>
        LET r == blend.result[1]
            N == Len(blend.old)
        IN  /\ \A i \in 1..(N - 1) : r.mix_factor[i] <= r.mix_factor[i + 1]
            /\ r.mix_factor[N] = r.den
            /\ r.out[N] = blend.new[N] * r.den


\* A finished first_detection merge, its inputs and its output.
Merged == merge # None /\ merge[1].merged # None /\ merge[1].sync_method = "first_detection"

StartOf(readings) == IF Len(readings) = 0 THEN 0 ELSE readings[1].local_timestamp

\* aligned(c) - aligned(i) = c - i for every IMU reading and CV reading kept.
RelativeTimingKept ==
    LET m == merge[1].merged[1]
    IN  \A i \in 1..Len(m.imu_readings), c \in 1..Len(m.cv_readings) :
           m.cv_readings[c].local_timestamp - m.imu_readings[i].local_timestamp
              = merge[1].cv_readings[m.cv_readings[c].n].local_timestamp
                   - merge[1].imu_readings[m.imu_readings[i].n].local_timestamp

\* Every IMU reading is kept, in order; the CV readings kept are, in order,
\* those not before the CV sync point.
ImuKeptCvCut ==
    LET m == merge[1].merged[1]
        kept == SelectSeq(merge[1].cv_readings,
                          LAMBDA r : r.local_timestamp >= m.cv_sync_offset)
    IN  /\ Len(m.imu_readings) = Len(merge[1].imu_readings)
        /\ \A i \in 1..Len(m.imu_readings) : m.imu_readings[i].n = i
        /\ Len(m.cv_readings) = Len(kept)
        /\ \A c \in 1..Len(kept) : m.cv_readings[c].n = kept[c].n

============================================================================
